---------------------------- MODULE Spec2Model ----------------------------
(***************************************************************************)
(* A model of src/engine.py: class Engine, a fixed-depth alpha-beta search *)
(* with a transposition table (a dict shared by all root workers) and a    *)
(* thread-pool fan-out over the root moves.                                 *)
(*                                                                         *)
(* python-chess (the Rules Engine) is an external library.  It is          *)
(* represented by a finite table of positions, Game: each position gives   *)
(* what the engine asks of a chess.Board (turn, legal_moves in enumeration *)
(* order, is_check, is_game_over, zobrist hash, piece counts, the four     *)
(* centre squares).  fullmove_number and the move stack are kept in the    *)
(* board object, as python-chess keeps them.                               *)
(*                                                                         *)
(* Scores are Python floats in the source.  Every term of evalFunct is a   *)
(* multiple of 1/120, so a score is modelled as an integer number of units *)
(* of 1/120, held in two limbs [hi, lo] = hi * Limb + lo because           *)
(* 9999999999 * 120 does not fit TLC's 32-bit integers.  The rounding of   *)
(* float addition is not modelled: sums are exact.                         *)
(*                                                                         *)
(* ThreadPoolExecutor() has at least five threads; no position of Game has *)
(* more than three legal moves, so every task may run at once.  A task     *)
(* stays "queued" until a thread takes it, at any later time.              *)
(***************************************************************************)
EXTENDS Integers, Sequences, FiniteSets, TLC

(***************************************************************************)
(* Bounds of the model                                                     *)
(***************************************************************************)
\* maxDepth is drawn from 1..MaxDepthBound, a direct engine() call's depth
\* from 0..MaxDepthBound
MaxDepthBound == 3
\* getBestMove is called at most MaxCalls times on one Engine
MaxCalls == 2

(***************************************************************************)
(* Scores                                                                  *)
(***************************************************************************)
Unit == 8 * 15
Limb == 1000 * 1000

Norm(h, l) == [hi |-> h + (l \div Limb), lo |-> l % Limb]
\* a score of n units, n a small integer
Sc(n) == Norm(0, n)
\* a score of (m * 10^6 + p) points
Points(m, p) == Norm(m * Unit, p * Unit)
Neg(a) == Norm(-a.hi, -a.lo)
Add(a, b) == Norm(a.hi + b.hi, a.lo + b.lo)
Less(a, b) == a.hi < b.hi \/ (a.hi = b.hi /\ a.lo < b.lo)
Leq(a, b) == ~Less(b, a)
\* Python's max(a, b) and min(a, b): the first argument unless the second is
\* strictly greater (smaller)
PyMax(a, b) == IF Less(a, b) THEN b ELSE a
PyMin(a, b) == IF Less(b, a) THEN b ELSE a

\* float("-inf"), float("inf")
NegInf == [hi |-> -2000000000, lo |-> 0]
PosInf == [hi |-> 2000000000, lo |-> 0]
\* a slot no score was assigned to yet
None == [hi |-> 0, lo |-> -1]

\* 1e9, the mate sentinel of mateOpportunity
MateScore == Points(1000, 0)
\* float("-99999"), float("9999999999"): engine's initial running values
MaxNodeInit == Neg(Points(0, 99999))
MinNodeInit == Points(9999, 999999)

(***************************************************************************)
(* The Rules Engine: a finite game                                         *)
(***************************************************************************)
WHITE == TRUE
BLACK == FALSE

PAWN == 1
KNIGHT == 2
BISHOP == 3
ROOK == 4
QUEEN == 5
KING == 6
PIECE_TYPES == 1..6

\* a move: the position it leads to, board.is_capture(move)
Mv(to, cap) == [to |-> to, capture |-> cap]
\* a piece on a square
Pc(pt, c) == [piece_type |-> pt, color |-> c]
NoPiece == [piece_type |-> 0, color |-> WHITE]

Position(turn, check, over, w, b, center, moves) ==
    [turn |-> turn, check |-> check, over |-> over,
     pieces |-> [c \in BOOLEAN |-> IF c = WHITE THEN w ELSE b],
     center |-> center, moves |-> moves]

\* piece counts <<pawn, knight, bishop, rook, queen, king>>
KPPR == <<2, 0, 0, 1, 0, 1>>
KPR == <<1, 0, 0, 1, 0, 1>>
KPPQ == <<2, 0, 0, 0, 1, 1>>
KPQ == <<1, 0, 0, 0, 1, 1>>
KPP == <<2, 0, 0, 0, 0, 1>>
KQ == <<0, 0, 0, 0, 1, 1>>
KP == <<1, 0, 0, 0, 0, 1>>
K == <<0, 0, 0, 0, 0, 1>>

\* centre squares <<D4, D5, E4, E5>>
bQd5 == <<NoPiece, Pc(QUEEN, BLACK), NoPiece, NoPiece>>
bQd5wPe4 == <<NoPiece, Pc(QUEEN, BLACK), Pc(PAWN, WHITE), NoPiece>>
bQd5wKe4 == <<NoPiece, Pc(QUEEN, BLACK), Pc(KING, WHITE), NoPiece>>
wRd5 == <<NoPiece, Pc(ROOK, WHITE), NoPiece, NoPiece>>
Empty4 == <<NoPiece, NoPiece, NoPiece, NoPiece>>

(***************************************************************************)
(* Positions 1..13: White (K, R, two pawns) against Black (K, Q, two       *)
(* pawns).  From 1 White plays e2-e4 (to 2), e2-e3 (to 3) or a king move   *)
(* (to 4); Black's en-passant capture from 2 and plain capture from 3      *)
(* reach the same position 6, a transposition between two root branches.   *)
(* 10..13 is a four-ply shuffle; 24 belongs to this family.                *)
(* Positions 14..19: White (K, Q) against Black (K, pawn).  From 14 White  *)
(* can mate (15), capture the pawn and stalemate (16) or play on (17).     *)
(* Positions 20..23: bare kings, game over by insufficient material while  *)
(* legal moves exist.                                                      *)
(***************************************************************************)
Game == <<
    Position(WHITE, FALSE, FALSE, KPPR, KPPQ, bQd5,
             <<Mv(2, FALSE), Mv(3, FALSE), Mv(4, FALSE)>>),
    Position(BLACK, FALSE, FALSE, KPPR, KPPQ, bQd5wPe4,
             <<Mv(5, TRUE), Mv(6, TRUE)>>),
    Position(BLACK, FALSE, FALSE, KPPR, KPPQ, bQd5,
             <<Mv(6, TRUE), Mv(7, FALSE)>>),
    Position(BLACK, FALSE, FALSE, KPPR, KPPQ, bQd5wKe4,
             <<Mv(12, FALSE)>>),
    Position(WHITE, FALSE, FALSE, KPR, KPPQ, bQd5wPe4,
             <<Mv(11, TRUE)>>),
    Position(WHITE, FALSE, FALSE, KPR, KPPQ, bQd5,
             <<Mv(9, TRUE), Mv(8, TRUE)>>),
    Position(WHITE, FALSE, FALSE, KPPR, KPPQ, Empty4,
             <<Mv(24, FALSE)>>),
    Position(BLACK, FALSE, FALSE, KPR, KPP, wRd5,
             <<Mv(12, TRUE)>>),
    Position(BLACK, FALSE, FALSE, KPR, KPQ, bQd5,
             <<Mv(10, FALSE)>>),
    Position(WHITE, FALSE, FALSE, KPR, KPQ, bQd5,
             <<Mv(11, FALSE)>>),
    Position(BLACK, TRUE, FALSE, KPR, KPQ, bQd5,
             <<Mv(12, FALSE)>>),
    Position(WHITE, FALSE, FALSE, KPR, KPQ, Empty4,
             <<Mv(13, FALSE)>>),
    Position(BLACK, FALSE, FALSE, KPR, KPQ, bQd5wKe4,
             <<Mv(10, FALSE)>>),
    Position(WHITE, FALSE, FALSE, KQ, KP, Empty4,
             <<Mv(17, FALSE), Mv(16, TRUE), Mv(15, FALSE)>>),
    Position(BLACK, TRUE, TRUE, KQ, KP, Empty4, <<>>),
    Position(BLACK, FALSE, TRUE, KQ, K, Empty4, <<>>),
    Position(BLACK, FALSE, FALSE, KQ, KP, Empty4,
             <<Mv(18, FALSE)>>),
    Position(WHITE, FALSE, FALSE, KQ, KP, Empty4,
             <<Mv(19, FALSE), Mv(16, TRUE)>>),
    Position(BLACK, FALSE, FALSE, KQ, KP, Empty4,
             <<Mv(14, FALSE)>>),
    Position(WHITE, FALSE, TRUE, K, K, Empty4, <<Mv(21, FALSE)>>),
    Position(BLACK, FALSE, TRUE, K, K, Empty4, <<Mv(22, FALSE)>>),
    Position(WHITE, FALSE, TRUE, K, K, Empty4, <<Mv(23, FALSE)>>),
    Position(BLACK, FALSE, TRUE, K, K, Empty4, <<Mv(20, FALSE)>>),
    Position(BLACK, FALSE, FALSE, KPPR, KPPQ, Empty4,
             <<Mv(12, FALSE)>>)
>>

Positions == 1..Len(Game)
\* the most legal moves any position has: the most workers of one call
MaxMoves ==
    CHOOSE n \in 0..Len(Game) :
        /\ \E p \in Positions : Len(Game[p].moves) = n
        /\ \A p \in Positions : Len(Game[p].moves) <= n
Threads == 1..MaxMoves

\* chess.polyglot.zobrist_hash(board): a function of the placement and the
\* side to move, not of fullmove_number or the move stack
zobrist_hash(b) == 1000 + b.pos

\* a chess.Board: the position, the full-move counter, and the stack of what
\* pop() restores
Board(p, fm) == [pos |-> p, fullmove |-> fm, stack |-> <<>>]
turn(b) == Game[b.pos].turn
legal_moves(b) == Game[b.pos].moves
is_check(b) == Game[b.pos].check
is_game_over(b) == Game[b.pos].over
is_capture(b, m) == m.capture

push(b, m) ==
    [pos |-> m.to,
     fullmove |-> IF turn(b) = BLACK THEN b.fullmove + 1 ELSE b.fullmove,
     stack |-> Append(b.stack, [pos |-> b.pos, fullmove |-> b.fullmove])]

\* pop() of an empty stack raises IndexError: CanPop is its guard
CanPop(b) == Len(b.stack) > 0
pop(b) ==
    LET top == b.stack[Len(b.stack)] IN
    [pos |-> top.pos, fullmove |-> top.fullmove,
     stack |-> SubSeq(b.stack, 1, Len(b.stack) - 1)]

\* board.copy(stack=False)
copy(b) == [pos |-> b.pos, fullmove |-> b.fullmove, stack |-> <<>>]

(***************************************************************************)
(* Position Evaluator (evalFunct and its four terms)                       *)
(***************************************************************************)
pieceValue(piece_type) ==
    CASE piece_type = PAWN -> Unit
      [] piece_type = ROOK -> 5 * Unit + Unit \div 4
      [] piece_type = BISHOP -> 3 * Unit + Unit \div 2
      [] piece_type = KNIGHT -> 3 * Unit + Unit \div 2
      [] piece_type = QUEEN -> 9 * Unit
      [] piece_type = KING -> 0
      [] OTHER -> 0

\* len(board.pieces(piece_type, c))
pieces(b, piece_type, c) == Game[b.pos].pieces[c][piece_type]

RECURSIVE MaterialFrom(_, _, _)
MaterialFrom(b, color, pt) ==
    IF pt > 6 THEN 0
    ELSE pieces(b, pt, color) * pieceValue(pt)
         - pieces(b, pt, ~color) * pieceValue(pt)
         + MaterialFrom(b, color, pt + 1)

materialEvaluation(b, color) == Sc(MaterialFrom(b, color, 1))

\* mateOpportunity with the two signs exchanged
mateOpportunitySwapped(b, color) ==
    IF legal_moves(b) = <<>>
    THEN IF turn(b) = color THEN MateScore ELSE Neg(MateScore)
    ELSE Sc(0)

mateOpportunity(b, color) ==
    IF legal_moves(b) = <<>>
    THEN IF turn(b) = color THEN Neg(MateScore) ELSE MateScore
    ELSE Sc(0)

piece_weights(piece_type) ==
    CASE piece_type = PAWN -> Unit \div 5
      [] piece_type = KNIGHT -> Unit \div 4
      [] piece_type = BISHOP -> Unit \div 4
      [] piece_type = ROOK -> 3 * (Unit \div 20)
      [] piece_type = QUEEN -> 3 * (Unit \div 10)
      [] piece_type = KING -> Unit \div 40
      [] OTHER -> 0

\* board.piece_at(square) for the i-th of [D4, D5, E4, E5]
piece_at(b, i) == Game[b.pos].center[i]

RECURSIVE CenterFrom(_, _, _)
CenterFrom(b, color, i) ==
    IF i > 4 THEN 0
    ELSE LET piece == piece_at(b, i)
             weight == piece_weights(piece.piece_type)
         IN  (IF piece = NoPiece THEN 0
              ELSE IF piece.color = color THEN weight ELSE -weight)
             + CenterFrom(b, color, i + 1)

center_control(b, color) == Sc(CenterFrom(b, color, 1))

opening_book(b, color) ==
    IF b.fullmove < 10
    THEN LET multiplier == IF turn(b) = color THEN Unit \div 30
                           ELSE -(Unit \div 30)
         IN  Sc(Len(legal_moves(b)) * multiplier)
    ELSE Sc(0)

evalFunct(b, color) ==
    Add(Add(Add(materialEvaluation(b, color), mateOpportunity(b, color)),
            opening_book(b, color)),
        center_control(b, color))

(***************************************************************************)
(* Move Orderer                                                            *)
(***************************************************************************)
\* move_scores[move] after the loop of orderMoves
move_scores(b, m) ==
    (IF is_capture(b, m) THEN 100 ELSE 0)
    + (IF is_check(push(b, m)) THEN 50 ELSE 0)

\* InsertByScore of a sort that is not stable: a move goes ahead of the
\* moves of its own rank
RECURSIVE InsertByRankUnstable(_, _, _)
InsertByRankUnstable(b, sorted, m) ==
    IF sorted = <<>> THEN <<m>>
    ELSE IF move_scores(b, Head(sorted)) > move_scores(b, m)
         THEN <<Head(sorted)>> \o InsertByRankUnstable(b, Tail(sorted), m)
         ELSE <<m>> \o sorted

\* sorted(..., reverse=True) is stable: a move goes behind every move that
\* ranks at least as high
RECURSIVE InsertByScore(_, _, _)
InsertByScore(b, sorted, m) ==
    IF sorted = <<>> THEN <<m>>
    ELSE IF move_scores(b, Head(sorted)) >= move_scores(b, m)
         THEN <<Head(sorted)>> \o InsertByScore(b, Tail(sorted), m)
         ELSE <<m>> \o sorted

RECURSIVE SortedMoves(_, _)
SortedMoves(b, ms) ==
    IF ms = <<>> THEN <<>>
    ELSE InsertByScore(b, SortedMoves(b, SubSeq(ms, 1, Len(ms) - 1)),
                       ms[Len(ms)])

orderMoves(b) == SortedMoves(b, legal_moves(b))

\* AfterProbes without the pop of line 133
RECURSIVE AfterProbesNoPop(_, _)
AfterProbesNoPop(b, ms) ==
    IF ms = <<>> THEN b ELSE AfterProbesNoPop(push(b, Head(ms)), Tail(ms))

\* the board after orderMoves: each legal move was pushed and popped
RECURSIVE AfterProbes(_, _)
AfterProbes(b, ms) ==
    IF ms = <<>> THEN b ELSE AfterProbes(pop(push(b, Head(ms))), Tail(ms))

(***************************************************************************)
(* State                                                                   *)
(***************************************************************************)
VARIABLES
    boards,       \* the chess.Board objects alive, by identity
    tt,           \* self.transposition_table: hash -> score
    ttWriter,     \* for each entry of tt, the thread that stored it last
    maxDepth,     \* self.maxDepth
    color,        \* self.color
    raisesAt,     \* the positions at which the Rules Engine raises
    phase,        \* where the caller of the engine is
    calls,        \* getBestMove calls started so far
    ttAtCall,     \* tt as it was when the latest getBestMove call began
    move_list, best_move, best_value,   \* locals of getBestMove
    futures,      \* future_to_move: one record per submitted root move
    observed,     \* the futures as_completed has yielded, in order
    result,       \* what getBestMove returned (0: None)
    stack,        \* per thread, the frames of its engine() calls, innermost last
    retval,       \* per thread, what its outermost engine() call returned
    hist          \* the direct engine() calls made on this Engine

vars == <<boards, tt, ttWriter, maxDepth, color, raisesAt, phase, calls,
          ttAtCall, move_list, best_move, best_value, futures, observed,
          result, stack, retval, hist>>

\* the identity of self.board; the workers' copies are 1, 2, ...
SelfBoard == 0

EmptyTable == [h \in {} |-> None]
Put(table, h, v) ==
    [k \in DOMAIN table \cup {h} |-> IF k = h THEN v ELSE table[k]]

\* the full-move numbers a root position is given
RootFullmoves == {9, 10}
\* the sets of positions at which the Rules Engine raises
FaultInputs == {{}, {2}, {6}, {12}, {15, 17}}

Top(t) == stack[t][Len(stack[t])]
SetTop(t, f) == [stack EXCEPT ![t][Len(stack[t])] = f]

\* the locals of one engine(board, alpha, beta, depth) call; entry is the
\* board as the call received it, ordered the list orderMoves returned to
\* the loop, moves what the loop has not reached yet
Frame(bid, alpha, beta, depth) ==
    [pc |-> "enter", board |-> bid, alpha |-> alpha, beta |-> beta,
     depth |-> depth, board_hash |-> 0, value |-> None, moves |-> <<>>,
     maximizing |-> FALSE, entry |-> None, ordered |-> <<>>]

(***************************************************************************)
(* Search Core: engine(), one action per step between two accesses to      *)
(* shared state                                                            *)
(***************************************************************************)
\* An exception leaves engine and evaluateMove (neither has a handler): the
\* worker's future fails, nothing pushed is popped.
Raises(t, bds) ==
    /\ stack' = [stack EXCEPT ![t] = <<>>]
    /\ futures' = [futures EXCEPT ![t].state = "failed"]
    /\ boards' = bds
    /\ UNCHANGED retval

\* lines 106-110 and 115-119: the caller's loop body after the recursive call
\* returned v
Resume(f, v) ==
    LET value == IF f.maximizing THEN PyMax(f.value, v) ELSE PyMin(f.value, v)
        alpha == IF f.maximizing THEN PyMax(f.alpha, value) ELSE f.alpha
        beta == IF f.maximizing THEN f.beta ELSE PyMin(f.beta, value)
    IN  [f EXCEPT !.value = value, !.alpha = alpha, !.beta = beta,
                  !.pc = IF Leq(beta, alpha) \/ f.moves = <<>>
                         THEN "store" ELSE "loop"]

\* the innermost engine() call of thread t returns v
Returns(t, v, bds) ==
    LET rest == SubSeq(stack[t], 1, Len(stack[t]) - 1) IN
    IF rest = <<>>
    THEN /\ stack' = [stack EXCEPT ![t] = <<>>]
         /\ retval' = [retval EXCEPT ![t] = v]
         /\ boards' = bds
         /\ UNCHANGED futures
    ELSE LET f == rest[Len(rest)] IN
         IF ~CanPop(bds[f.board])
         THEN Raises(t, bds)
         ELSE /\ stack' = [stack EXCEPT ![t] =
                              [rest EXCEPT ![Len(rest)] = Resume(f, v)]]
              /\ boards' = [bds EXCEPT ![f.board] = pop(bds[f.board])]
              /\ UNCHANGED <<retval, futures>>

\* EngineEnter with the table lookup ahead of the depth and game-over test
EngineEnterLookupFirst(t) ==
    /\ stack[t] # <<>>
    /\ Top(t).pc = "enter"
    /\ LET f == Top(t)
           b == boards[f.board]
       IN  IF b.pos \in raisesAt
           THEN Raises(t, boards)
           ELSE /\ stack' = SetTop(t, [f EXCEPT !.pc = "lookup",
                                       !.board_hash = zobrist_hash(b),
                                       !.entry = b])
                /\ UNCHANGED <<boards, retval, futures>>
    /\ UNCHANGED <<tt, ttWriter, maxDepth, color, raisesAt, phase, calls,
                   ttAtCall, move_list, best_move, best_value, observed,
                   result, hist>>

\* lines 95-96
EngineEnter(t) ==
    /\ stack[t] # <<>>
    /\ Top(t).pc = "enter"
    /\ LET f == Top(t)
           b == boards[f.board]
       IN  IF b.pos \in raisesAt
           THEN Raises(t, boards)
           ELSE IF f.depth = 0 \/ is_game_over(b)
           THEN Returns(t, evalFunct(b, color), boards)
           ELSE /\ stack' = SetTop(t, [f EXCEPT !.pc = "lookup",
                                       !.board_hash = zobrist_hash(b),
                                       !.entry = b])
                /\ UNCHANGED <<boards, retval, futures>>
    /\ UNCHANGED <<tt, ttWriter, maxDepth, color, raisesAt, phase, calls,
                   ttAtCall, move_list, best_move, best_value, observed,
                   result, hist>>

\* EngineLookup that never finds the hash: lines 99-100 left out
EngineLookupMiss(t) ==
    /\ stack[t] # <<>>
    /\ Top(t).pc = "lookup"
    /\ LET f == Top(t)
           b == boards[f.board]
       IN  /\ stack' = SetTop(t,
                  [f EXCEPT !.pc = "loop",
                            !.maximizing = (turn(b) = color),
                            !.value = IF turn(b) = color
                                      THEN MaxNodeInit ELSE MinNodeInit,
                            !.moves = orderMoves(b),
                            !.ordered = orderMoves(b)])
           /\ boards' = [boards EXCEPT
                            ![f.board] = AfterProbes(b, legal_moves(b))]
           /\ UNCHANGED <<retval, futures>>
    /\ UNCHANGED <<tt, ttWriter, maxDepth, color, raisesAt, phase, calls,
                   ttAtCall, move_list, best_move, best_value, observed,
                   result, hist>>

\* lines 99-104 (113): the lookup; on a miss the running value and the
\* ordered moves
EngineLookup(t) ==
    /\ stack[t] # <<>>
    /\ Top(t).pc = "lookup"
    /\ LET f == Top(t)
           b == boards[f.board]
       IN  IF f.board_hash \in DOMAIN tt
           THEN Returns(t, tt[f.board_hash], boards)
           ELSE /\ stack' = SetTop(t,
                      [f EXCEPT !.pc = "loop",
                                !.maximizing = (turn(b) = color),
                                !.value = IF turn(b) = color
                                          THEN MaxNodeInit ELSE MinNodeInit,
                                !.moves = orderMoves(b),
                                !.ordered = orderMoves(b)])
                /\ boards' = [boards EXCEPT
                                 ![f.board] = AfterProbes(b, legal_moves(b))]
                /\ UNCHANGED <<retval, futures>>
    /\ UNCHANGED <<tt, ttWriter, maxDepth, color, raisesAt, phase, calls,
                   ttAtCall, move_list, best_move, best_value, observed,
                   result, hist>>

\* lines 104-106 (113-115): the next move of the loop is pushed and engine
\* is called one level down
EngineLoop(t) ==
    /\ stack[t] # <<>>
    /\ Top(t).pc = "loop"
    /\ LET f == Top(t)
           b == boards[f.board]
       IN  IF f.moves = <<>>
           THEN /\ stack' = SetTop(t, [f EXCEPT !.pc = "store"])
                /\ UNCHANGED boards
           ELSE /\ boards' = [boards EXCEPT
                                 ![f.board] = push(b, Head(f.moves))]
                /\ stack' = [stack EXCEPT ![t] =
                      Append([stack[t] EXCEPT ![Len(stack[t])] =
                                 [f EXCEPT !.pc = "call",
                                           !.moves = Tail(f.moves)]],
                             Frame(f.board, f.alpha, f.beta, f.depth - 1))]
    /\ UNCHANGED <<tt, ttWriter, maxDepth, color, raisesAt, phase, calls,
                   ttAtCall, move_list, best_move, best_value, futures,
                   observed, result, retval, hist>>

\* EngineStore caching the bound alpha in place of the value
EngineStoreBound(t) ==
    /\ stack[t] # <<>>
    /\ Top(t).pc = "store"
    /\ LET f == Top(t) IN
       /\ tt' = Put(tt, f.board_hash, f.alpha)
       /\ ttWriter' = Put(ttWriter, f.board_hash, t)
       /\ Returns(t, f.value, boards)
    /\ UNCHANGED <<maxDepth, color, raisesAt, phase, calls, ttAtCall,
                   move_list, best_move, best_value, observed, result, hist>>

\* lines 121-122
EngineStore(t) ==
    /\ stack[t] # <<>>
    /\ Top(t).pc = "store"
    /\ LET f == Top(t) IN
       /\ tt' = Put(tt, f.board_hash, f.value)
       /\ ttWriter' = Put(ttWriter, f.board_hash, t)
       /\ Returns(t, f.value, boards)
    /\ UNCHANGED <<maxDepth, color, raisesAt, phase, calls, ttAtCall,
                   move_list, best_move, best_value, observed, result, hist>>

(***************************************************************************)
(* Root Dispatcher: getBestMove and evaluateMove                           *)
(***************************************************************************)
NoFutures == <<>>
NoThread == [t \in Threads |-> <<>>]
NoRetval == [t \in Threads |-> None]

\* lines 15-19: a call of getBestMove begins.  The copies of an earlier call
\* are garbage by now.
GetBestMove ==
    /\ phase \in {"idle", "returned"}
    /\ calls < MaxCalls
    /\ calls' = calls + 1
    /\ ttAtCall' = tt
    /\ best_move' = 0
    /\ best_value' = NegInf
    /\ move_list' = legal_moves(boards[SelfBoard])
    /\ boards' = [i \in {SelfBoard} |-> boards[SelfBoard]]
    /\ futures' = NoFutures
    /\ observed' = <<>>
    /\ phase' = IF legal_moves(boards[SelfBoard]) = <<>>
                THEN "collect" ELSE "submit"
    /\ UNCHANGED <<tt, ttWriter, maxDepth, color, raisesAt, result, stack,
                   retval, hist>>

\* TaskBoard handing every task self.board itself
TaskBoardShared(i) == SelfBoard

\* the board a task is given: line 22, self.board.copy(stack=False)
TaskBoard(i) == i
TaskBoardValue == copy(boards[SelfBoard])

\* line 22: executor.submit for the next root move, with a copy of self.board
Submit ==
    /\ phase = "submit"
    /\ LET i == Len(futures) + 1
           bid == TaskBoard(i)
       IN  /\ boards' = [k \in DOMAIN boards \cup {bid} |->
                            IF k = bid THEN TaskBoardValue ELSE boards[k]]
           /\ futures' = Append(futures,
                  [move |-> i, board |-> bid, alpha |-> NegInf,
                   beta |-> PosInf, state |-> "queued", value |-> None])
           /\ phase' = IF i = Len(move_list) THEN "collect" ELSE "submit"
    /\ UNCHANGED <<tt, ttWriter, maxDepth, color, raisesAt, calls, ttAtCall,
                   move_list, best_move, best_value, observed, result, stack,
                   retval, hist>>

\* WorkerStart that hands engine the whole maxDepth
WorkerStartFullDepth(t) ==
    /\ t \in DOMAIN futures
    /\ futures[t].state = "queued"
    /\ LET fu == futures[t]
           b == boards[fu.board]
       IN  /\ boards' = [boards EXCEPT
                            ![fu.board] = push(b, move_list[fu.move])]
           /\ stack' = [stack EXCEPT ![t] =
                  <<Frame(fu.board, fu.alpha, fu.beta, maxDepth)>>]
           /\ futures' = [futures EXCEPT ![t].state = "running"]
    /\ UNCHANGED <<tt, ttWriter, maxDepth, color, raisesAt, phase, calls,
                   ttAtCall, move_list, best_move, best_value, observed,
                   result, retval, hist>>

\* lines 36-37: a pool thread takes the task: evaluateMove pushes the root
\* move and calls engine
WorkerStart(t) ==
    /\ t \in DOMAIN futures
    /\ futures[t].state = "queued"
    /\ LET fu == futures[t]
           b == boards[fu.board]
       IN  /\ boards' = [boards EXCEPT
                            ![fu.board] = push(b, move_list[fu.move])]
           /\ stack' = [stack EXCEPT ![t] =
                  <<Frame(fu.board, fu.alpha, fu.beta, maxDepth - 1)>>]
           /\ futures' = [futures EXCEPT ![t].state = "running"]
    /\ UNCHANGED <<tt, ttWriter, maxDepth, color, raisesAt, phase, calls,
                   ttAtCall, move_list, best_move, best_value, observed,
                   result, retval, hist>>

\* lines 38-39: engine returned; evaluateMove pops the root move and returns,
\* which completes the future
WorkerFinish(t) ==
    /\ t \in DOMAIN futures
    /\ futures[t].state = "running"
    /\ stack[t] = <<>>
    /\ retval[t] # None
    /\ LET fu == futures[t]
           b == boards[fu.board]
       IN  IF ~CanPop(b)
           THEN /\ futures' = [futures EXCEPT ![t].state = "failed"]
                /\ UNCHANGED boards
           ELSE /\ boards' = [boards EXCEPT ![fu.board] = pop(b)]
                /\ futures' = [futures EXCEPT ![t].state = "done",
                                              ![t].value = retval[t]]
    /\ retval' = [retval EXCEPT ![t] = None]
    /\ UNCHANGED <<tt, ttWriter, maxDepth, color, raisesAt, phase, calls,
                   ttAtCall, move_list, best_move, best_value, observed,
                   result, stack, hist>>

\* Better with >= for >
BetterOrEqual(move_value, best) == Leq(best, move_value)

\* line 27: move_value > best_value
Better(move_value, best) == Less(best, move_value)

\* Observe without the try/except: a failed future's exception leaves
\* getBestMove, which ends without a move
ObserveUncaught(t) ==
    /\ phase = "collect"
    /\ t \in DOMAIN futures
    /\ futures[t].state \in {"done", "failed"}
    /\ \A i \in DOMAIN observed : observed[i] # t
    /\ observed' = Append(observed, t)
    /\ IF futures[t].state = "failed"
       THEN /\ phase' = "returned"
            /\ result' = 0
            /\ UNCHANGED <<best_value, best_move>>
       ELSE /\ UNCHANGED <<phase, result>>
            /\ IF Better(futures[t].value, best_value)
               THEN /\ best_value' = futures[t].value
                    /\ best_move' = futures[t].move
               ELSE UNCHANGED <<best_value, best_move>>
    /\ UNCHANGED <<boards, tt, ttWriter, maxDepth, color, raisesAt,
                   calls, ttAtCall, move_list, futures, stack, retval, hist>>

\* lines 23-31: as_completed yields a finished future; its result is
\* compared, or its exception is caught and printed
Observe(t) ==
    /\ phase = "collect"
    /\ t \in DOMAIN futures
    /\ futures[t].state \in {"done", "failed"}
    /\ \A i \in DOMAIN observed : observed[i] # t
    /\ observed' = Append(observed, t)
    /\ IF futures[t].state = "done" /\ Better(futures[t].value, best_value)
       THEN /\ best_value' = futures[t].value
            /\ best_move' = futures[t].move
       ELSE UNCHANGED <<best_value, best_move>>
    /\ UNCHANGED <<boards, tt, ttWriter, maxDepth, color, raisesAt, phase,
                   calls, ttAtCall, move_list, futures, result, stack, retval,
                   hist>>

\* GetBestMoveReturn that returns once the first future was yielded
GetBestMoveReturnEarly ==
    /\ phase = "collect"
    /\ Len(observed) >= 1 \/ move_list = <<>>
    /\ phase' = "returned"
    /\ result' = best_move
    /\ UNCHANGED <<boards, tt, ttWriter, maxDepth, color, raisesAt, calls,
                   ttAtCall, move_list, best_move, best_value, futures,
                   observed, stack, retval, hist>>

\* line 33: every future was yielded; the executor is shut down and
\* best_move is returned
GetBestMoveReturn ==
    /\ phase = "collect"
    /\ Len(observed) = Len(move_list)
    /\ phase' = "returned"
    /\ result' = best_move
    /\ UNCHANGED <<boards, tt, ttWriter, maxDepth, color, raisesAt, calls,
                   ttAtCall, move_list, best_move, best_value, futures,
                   observed, stack, retval, hist>>

Init ==
    /\ \E p \in Positions, fm \in RootFullmoves :
           boards = [i \in {SelfBoard} |-> Board(p, fm)]
    /\ maxDepth \in 1..MaxDepthBound
    /\ color \in BOOLEAN
    /\ raisesAt \in FaultInputs
    /\ tt = EmptyTable
    /\ ttWriter = EmptyTable
    /\ phase = "idle"
    /\ calls = 0
    /\ ttAtCall = EmptyTable
    /\ move_list = <<>>
    /\ best_move = 0
    /\ best_value = NegInf
    /\ futures = NoFutures
    /\ observed = <<>>
    /\ result = 0
    /\ stack = NoThread
    /\ retval = NoRetval
    /\ hist = <<>>

Next ==
    \/ GetBestMove
    \/ Submit
    \/ GetBestMoveReturn
    \/ \E t \in Threads :
           \/ WorkerStart(t)
           \/ EngineEnter(t)
           \/ EngineLookup(t)
           \/ EngineLoop(t)
           \/ EngineStore(t)
           \/ WorkerFinish(t)
           \/ Observe(t)

Spec == Init /\ [][Next]_vars

\* the boards getBestMove is called on under fair scheduling: two root
\* moves that meet again below (2), no legal move (15), a quiet move and a
\* capture into stalemate (18), a finished game that still has a move (20)
FairRoots == {2, 15, 18, 20}

InitFair == Init /\ boards[SelfBoard].pos \in FairRoots

\* the threads are scheduled: the caller and the pool's threads run on
\* while one of them has a step to take
FairSpec == InitFair /\ [][Next]_vars /\ WF_vars(Next)

(***************************************************************************)
(* A caller that invokes engine() directly, twice in a row on the same     *)
(* board: the second specification, SpecEngine                             *)
(***************************************************************************)
\* the (alpha, beta) windows a direct call is given
Windows == {<<NegInf, PosInf>>, <<Sc(-500), Sc(-440)>>, <<Sc(0), Sc(1000)>>}

HashOf(p) == zobrist_hash(Board(p, 1))
\* the contents the table is given before the first direct call
TableInputs ==
    {EmptyTable}
    \cup {[h \in S |-> Sc(7)] :
            S \in {{HashOf(6)}, {HashOf(p) : p \in Positions}}}

Call(depth, w, table) ==
    [depth |-> depth, alpha |-> w[1], beta |-> w[2], ttBefore |-> table,
     ret |-> None, ttAfter |-> table]

InitEngine ==
    /\ \E p \in Positions, fm \in RootFullmoves :
           boards = [i \in {SelfBoard} |-> Board(p, fm)]
    /\ color \in BOOLEAN
    /\ raisesAt = {}
    /\ tt \in TableInputs
    /\ ttWriter = [h \in DOMAIN tt |-> 0]
    /\ \E depth \in 0..MaxDepthBound, w \in Windows :
           /\ maxDepth = depth + 1
           /\ hist = <<Call(depth, w, tt)>>
           /\ stack = [t \in Threads |->
                          IF t = 1 THEN <<Frame(SelfBoard, w[1], w[2], depth)>>
                          ELSE <<>>]
    /\ phase = "engine"
    /\ calls = 0
    /\ ttAtCall = EmptyTable
    /\ move_list = <<>>
    /\ best_move = 0
    /\ best_value = NegInf
    /\ futures = NoFutures
    /\ observed = <<>>
    /\ result = 0
    /\ retval = NoRetval

\* the direct call returned to its caller
EngineReturned ==
    /\ phase = "engine"
    /\ stack[1] = <<>>
    /\ retval[1] # None
    /\ hist' = [hist EXCEPT ![Len(hist)].ret = retval[1],
                            ![Len(hist)].ttAfter = tt]
    /\ retval' = [retval EXCEPT ![1] = None]
    /\ phase' = "engineDone"
    /\ UNCHANGED <<boards, tt, ttWriter, maxDepth, color, raisesAt, calls,
                   ttAtCall, move_list, best_move, best_value, futures,
                   observed, result, stack>>

\* the caller calls engine again: same board, same depth, any window
EngineAgain ==
    /\ phase = "engineDone"
    /\ Len(hist) < 2
    /\ \E w \in Windows :
           /\ hist' = Append(hist, Call(hist[1].depth, w, tt))
           /\ stack' = [stack EXCEPT ![1] =
                  <<Frame(SelfBoard, w[1], w[2], hist[1].depth)>>]
    /\ phase' = "engine"
    /\ UNCHANGED <<boards, tt, ttWriter, maxDepth, color, raisesAt, calls,
                   ttAtCall, move_list, best_move, best_value, futures,
                   observed, result, retval>>

NextEngine ==
    \/ EngineEnter(1)
    \/ EngineLookup(1)
    \/ EngineLoop(1)
    \/ EngineStore(1)
    \/ EngineReturned
    \/ EngineAgain

SpecEngine == InitEngine /\ [][NextEngine]_vars

(***************************************************************************)
(* engine() run by one thread with nothing else running: the call as a     *)
(* function of its arguments and the table, giving the returned score and  *)
(* the table it leaves                                                     *)
(***************************************************************************)
RECURSIVE engine(_, _, _, _, _)
RECURSIVE engineLoop(_, _, _, _, _, _, _)

\* lines 104-110 and 113-119: the loop over the moves not reached yet
engineLoop(b, moves, value, alpha, beta, depth, table) ==
    IF moves = <<>> THEN [value |-> value, table |-> table]
    ELSE LET maximizing == turn(b) = color
             child == engine(push(b, Head(moves)), alpha, beta, depth - 1,
                             table)
             v == IF maximizing THEN PyMax(value, child.value)
                  ELSE PyMin(value, child.value)
             a == IF maximizing THEN PyMax(alpha, v) ELSE alpha
             be == IF maximizing THEN beta ELSE PyMin(beta, v)
         IN  IF Leq(be, a) THEN [value |-> v, table |-> child.table]
             ELSE engineLoop(b, Tail(moves), v, a, be, depth, child.table)

\* lines 94-122
engine(b, alpha, beta, depth, table) ==
    IF depth = 0 \/ is_game_over(b)
    THEN [value |-> evalFunct(b, color), table |-> table]
    ELSE LET board_hash == zobrist_hash(b) IN
         IF board_hash \in DOMAIN table
         THEN [value |-> table[board_hash], table |-> table]
         ELSE LET r == engineLoop(b, orderMoves(b),
                                  IF turn(b) = color THEN MaxNodeInit
                                  ELSE MinNodeInit,
                                  alpha, beta, depth, table)
              IN  [value |-> r.value,
                   table |-> Put(r.table, board_hash, r.value)]


(***************************************************************************)
(* Properties                                                              *)
(***************************************************************************)
\* the unpruned minimax value of a board searched to a depth: evalFunct at
\* depth 0 or when the game is over, else the maximum (side to move is the
\* perspective colour) or minimum of the children's values
RECURSIVE Minimax(_, _, _)
RECURSIVE MinimaxOver(_, _, _, _)
Minimax(b, c, depth) ==
    IF depth = 0 \/ is_game_over(b) THEN evalFunct(b, c)
    ELSE MinimaxOver(b, c, depth, legal_moves(b))
MinimaxOver(b, c, depth, ms) ==
    LET v == Minimax(push(b, Head(ms)), c, depth - 1) IN
    IF Len(ms) = 1 THEN v
    ELSE IF turn(b) = c THEN PyMax(v, MinimaxOver(b, c, depth, Tail(ms)))
         ELSE PyMin(v, MinimaxOver(b, c, depth, Tail(ms)))

Returned == phase = "returned"
Done(i) == i \in DOMAIN futures /\ futures[i].state = "done"
Failed(i) == i \in DOMAIN futures /\ futures[i].state = "failed"
\* the place of future i in the order as_completed yielded the futures
Place(i) == CHOOSE k \in DOMAIN observed : observed[k] = i
\* the position root move i leads to
RootChild(i) == move_list[i].to
Checkmates(i) == Game[RootChild(i)].moves = <<>> /\ Game[RootChild(i)].check

\* C1: a direct engine(board, -inf, +inf, depth) call that starts with an
\* empty transposition table returns the unpruned minimax value of the board
\* at that depth.
C1_EngineEqualsMinimax ==
    \A k \in DOMAIN hist :
        (/\ hist[k].ret # None
         /\ hist[k].ttBefore = EmptyTable
         /\ hist[k].alpha = NegInf
         /\ hist[k].beta = PosInf)
        => hist[k].ret = Minimax(boards[SelfBoard], color, hist[k].depth)

\* C2: when getBestMove has returned and at least one branch completed, the
\* returned move is a root move whose branch completed, no completed branch
\* scored higher, and of the completed branches with that score it is the
\* one as_completed yielded first.
C2_BestOfCompleted ==
    (Returned /\ \E i \in DOMAIN futures : Done(i))
    => /\ result \in DOMAIN move_list
       /\ Done(result)
       /\ \A j \in DOMAIN futures :
              Done(j) => /\ Leq(futures[j].value, futures[result].value)
                         /\ (futures[j].value = futures[result].value
                             => Place(result) <= Place(j))

\* C2 witness: getBestMove returned the first-yielded of two completed
\* branches that tie on the best score, and that branch was not submitted
\* first
C2_Witness ==
    /\ Returned
    /\ Done(result)
    /\ \E j \in DOMAIN futures :
           /\ j < result
           /\ Done(j)
           /\ futures[j].value = futures[result].value
           /\ Place(result) < Place(j)

\* C3: with no legal move at the root getBestMove does not return a value
\* (it fails with a "no legal move" error instead).
C3_NoLegalMoveFails == ~(Returned /\ move_list = <<>>)

\* C4: whatever branches fail, getBestMove returns only after every branch
\* was processed, never returns a failed branch's move, and returns the
\* best of the branches that completed.
C4_FailedBranchesDropped ==
    Returned
    => /\ \A i \in DOMAIN move_list :
              /\ Done(i) \/ Failed(i)
              /\ \E k \in DOMAIN observed : observed[k] = i
       /\ ~Failed(result)
       /\ (\E i \in DOMAIN futures : Done(i))
          => /\ Done(result)
             /\ \A j \in DOMAIN futures :
                    Done(j) => ~Less(futures[result].value, futures[j].value)
       /\ (\A i \in DOMAIN futures : Failed(i)) => result = 0

\* C4 witness: getBestMove returned a move although a branch failed, and the
\* failed branch was yielded before the returned one
C4_Witness ==
    /\ Returned
    /\ result # 0
    /\ \E i \in DOMAIN futures : Failed(i) /\ Place(i) < Place(result)

\* C5 (on runs in which the Rules Engine never raises): when the
\* perspective colour is to move at the root and some root move checkmates,
\* getBestMove returns a checkmating move, whose score is evalFunct of the
\* mated position, +1e9 included.
C5_MateInOneChosen ==
    (/\ Returned
     /\ raisesAt = {}
     /\ turn(boards[SelfBoard]) = color
     /\ \E i \in DOMAIN move_list : Checkmates(i))
    => /\ result \in DOMAIN move_list
       /\ Checkmates(result)
       /\ ~Less(futures[result].value, MateScore)

\* C6: at the start of every getBestMove call the transposition table is
\* empty.
C6_TableEmptyAtCall == ttAtCall = EmptyTable

\* C7: from the lookup at which a worker misses hash h to its store for h,
\* no other worker stores an entry for h.
C7_MissThenStoreAtomic ==
    \A t \in Threads : \A i \in DOMAIN stack[t] :
        stack[t][i].pc \in {"loop", "call", "store"}
        => \/ stack[t][i].board_hash \notin DOMAIN tt
           \/ ttWriter[stack[t][i].board_hash] = t

\* C8: every step that changes a board is a step of the one worker that
\* board was copied for; no two tasks are given the same board, none is
\* given self.board, and self.board never changes.
C8_PrivateBoards ==
    [][/\ boards'[SelfBoard] = boards[SelfBoard]
       /\ \A t \in DOMAIN futures' :
              /\ futures'[t].board # SelfBoard
              /\ \A u \in DOMAIN futures' :
                     t # u => futures'[t].board # futures'[u].board
              /\ \A i \in DOMAIN stack'[t] :
                     stack'[t][i].board = futures'[t].board
       /\ \A k \in DOMAIN boards \cap DOMAIN boards' :
              boards'[k] # boards[k]
              => \E t \in DOMAIN futures :
                     /\ futures[t].board = k
                     /\ stack'[t] # stack[t] \/ futures'[t] # futures[t]
      ]_vars

\* C8 witness: two workers are each two moves deep on boards of their own
C8_Witness ==
    \E t, u \in DOMAIN futures :
        /\ t # u
        /\ futures[t].board # futures[u].board
        /\ Len(boards[futures[t].board].stack) >= 2
        /\ Len(boards[futures[u].board].stack) >= 2
        /\ boards[SelfBoard].stack = <<>>

\* C9: a call of engine with depth 0 never gets past its first test (no
\* lookup, no loop, no recursive call, no store), and a direct call with
\* depth 0 returns evalFunct of the board and leaves the table as it was,
\* whatever the table holds.
C9_DepthZeroIsEvaluate ==
    /\ \A t \in Threads : \A i \in DOMAIN stack[t] :
           /\ stack[t][i].depth >= 0
           /\ stack[t][i].depth = 0 => stack[t][i].pc = "enter"
    /\ \A k \in DOMAIN hist :
           (hist[k].depth = 0 /\ hist[k].ret # None)
           => /\ hist[k].ret = evalFunct(boards[SelfBoard], color)
              /\ hist[k].ttAfter = hist[k].ttBefore

\* C9 witness: a direct depth-0 call returned on a board whose game is not
\* over while the table held another score for that board's hash
C9_Witness ==
    /\ hist[1].depth = 0
    /\ hist[1].ret # None
    /\ ~is_game_over(boards[SelfBoard])
    /\ zobrist_hash(boards[SelfBoard]) \in DOMAIN hist[1].ttBefore
    /\ hist[1].ttBefore[zobrist_hash(boards[SelfBoard])] # hist[1].ret

\* C10: the second of two direct calls in a row on the same board and depth
\* returns what the first returned and leaves the table as the first left
\* it, whatever window it is given.
C10_SecondCallSame ==
    (Len(hist) = 2 /\ hist[2].ret # None)
    => /\ hist[2].ret = hist[1].ret
       /\ hist[2].ttAfter = hist[1].ttAfter

\* C10 witness: the first call missed the table and searched, the second
\* was given another window and has returned
C10_Witness ==
    /\ Len(hist) = 2
    /\ hist[2].ret # None
    /\ hist[1].depth > 0
    /\ ~is_game_over(boards[SelfBoard])
    /\ zobrist_hash(boards[SelfBoard]) \notin DOMAIN hist[1].ttBefore
    /\ <<hist[2].alpha, hist[2].beta>> # <<hist[1].alpha, hist[1].beta>>

\* C11: a direct call of engine on a board without legal moves returns the
\* evaluation, and that evaluation is -1e9 plus the material and the centre
\* terms when the perspective colour is to move and +1e9 plus them when it
\* is not; the opening term of such a board is 0 on either side of full
\* move 10.
C11_NoMovesScore ==
    \A k \in DOMAIN hist :
        (hist[k].ret # None /\ legal_moves(boards[SelfBoard]) = <<>>)
        => LET b == boards[SelfBoard]
               terms == Add(materialEvaluation(b, color),
                            center_control(b, color))
           IN  /\ opening_book(b, color) = Sc(0)
               /\ turn(b) = color
                  => hist[k].ret = Add(Neg(Points(1000, 0)), terms)
               /\ turn(b) # color
                  => hist[k].ret = Add(Points(1000, 0), terms)

\* C11 witness: such a call has returned before full move 10 with the
\* perspective colour to move, on a board whose two other terms are not 0
C11_Witness ==
    /\ hist[1].ret # None
    /\ legal_moves(boards[SelfBoard]) = <<>>
    /\ boards[SelfBoard].fullmove < 10
    /\ turn(boards[SelfBoard]) = color
    /\ materialEvaluation(boards[SelfBoard], color) # Sc(0)

\* C12: every score a leaf is about to return to a node lies strictly
\* between the initial running value of a maximising node and that of a
\* minimising node, and a node that has run its loop never returns its
\* initial running value.
C12_SentinelsOutside ==
    \A t \in Threads : \A i \in DOMAIN stack[t] :
        LET f == stack[t][i]
            b == boards[f.board]
        IN  /\ (i > 1 /\ f.pc = "enter" /\ b.pos \notin raisesAt
                /\ (f.depth = 0 \/ is_game_over(b)))
               => /\ Less(MaxNodeInit, evalFunct(b, color))
                  /\ Less(evalFunct(b, color), MinNodeInit)
            /\ f.pc = "store"
               => f.value # (IF f.maximizing THEN MaxNodeInit
                             ELSE MinNodeInit)

\* C13: when orderMoves has returned to a node, and whenever a child's call
\* has returned to it, the node's board is the board the node was called
\* with, position and move stack alike; while a child's call is running the
\* board holds the node's stack plus one move per call in between; and the
\* board of a worker whose evaluateMove has returned is the copy it was
\* given.
C13_PushPopBalanced ==
    /\ \A t \in Threads : \A i \in DOMAIN stack[t] :
           LET f == stack[t][i]
               b == boards[f.board]
           IN  /\ f.pc \in {"loop", "store"} => b = f.entry
               /\ f.pc = "call"
                  => /\ Len(b.stack) = Len(f.entry.stack) + Len(stack[t]) - i
                     /\ SubSeq(b.stack, 1, Len(f.entry.stack)) = f.entry.stack
                     /\ b.stack[Len(f.entry.stack) + 1] =
                            [pos |-> f.entry.pos,
                             fullmove |-> f.entry.fullmove]
    /\ \A i \in DOMAIN futures :
           Done(i) => boards[futures[i].board] = copy(boards[SelfBoard])

\* C13 witness: a node two levels below a root move has had one child's call
\* return and is about to push the next move, and another worker's
\* evaluateMove has returned
C13_Witness ==
    \E t \in Threads :
        /\ Len(stack[t]) >= 2
        /\ Top(t).pc = "loop"
        /\ Len(Top(t).moves) < Len(Top(t).ordered)
        /\ \E i \in DOMAIN futures : Done(i)

\* C14: when an error has left evaluateMove, so that the worker's future
\* has failed, every move pushed on the worker's board has been popped: the
\* board is the copy the worker was given.
C14_PoppedOnError ==
    \A i \in DOMAIN futures :
        Failed(i) => boards[futures[i].board] = copy(boards[SelfBoard])

\* C15 as stated: a direct call on a board whose hash is in the table
\* returns the cached score and leaves the table alone, at every depth and
\* whether or not the game is over.
C15_LookupFirst ==
    \A k \in DOMAIN hist :
        LET h == zobrist_hash(boards[SelfBoard]) IN
        (hist[k].ret # None /\ h \in DOMAIN hist[k].ttBefore)
        => /\ hist[k].ret = hist[k].ttBefore[h]
           /\ hist[k].ttAfter = hist[k].ttBefore

\* C15, amended: a direct call with depth > 0 on a board whose game is not
\* over and whose hash is in the table returns the cached score, leaves the
\* table alone and never gets to the loop: no node that is in its loop, in
\* a child's call or at its store found its hash in the table the call
\* started with. With depth = 0 or the game over the call returns the
\* evaluation instead.
C15_LookupAfterBaseCase ==
    /\ \A k \in DOMAIN hist :
           LET b == boards[SelfBoard]
               h == zobrist_hash(b)
           IN  (hist[k].ret # None /\ h \in DOMAIN hist[k].ttBefore)
               => /\ hist[k].ttAfter = hist[k].ttBefore
                  /\ hist[k].ret = IF hist[k].depth = 0 \/ is_game_over(b)
                                   THEN evalFunct(b, color)
                                   ELSE hist[k].ttBefore[h]
    /\ \A t \in Threads : \A i \in DOMAIN stack[t] :
           stack[t][i].pc \in {"loop", "call", "store"}
           => stack[t][i].board_hash \notin DOMAIN hist[Len(hist)].ttBefore

\* C15 witness: a direct call with depth > 0 on a board whose game is not
\* over has returned a cached score that is not the board's evaluation
C15_Witness ==
    /\ hist[1].ret # None
    /\ hist[1].depth > 0
    /\ ~is_game_over(boards[SelfBoard])
    /\ zobrist_hash(boards[SelfBoard]) \in DOMAIN hist[1].ttBefore
    /\ hist[1].ret = hist[1].ttBefore[zobrist_hash(boards[SelfBoard])]
    /\ hist[1].ret # evalFunct(boards[SelfBoard], color)

\* C16: the list orderMoves returned to a node's loop is a permutation of
\* the legal moves of the node's board in which no move stands ahead of a
\* move of higher rank (100 for a capture plus 50 for a move that gives
\* check) and moves of equal rank stand as legal_moves enumerates them.
C16_OrderedStable ==
    \A t \in Threads : \A i \in DOMAIN stack[t] :
        stack[t][i].pc \in {"loop", "call", "store"}
        => LET b == stack[t][i].entry
               ms == legal_moves(b)
               r == stack[t][i].ordered
               n == Len(ms)
               rank(m) == (IF m.capture THEN 100 ELSE 0)
                          + (IF Game[m.to].check THEN 50 ELSE 0)
           IN  /\ Len(r) = n
               /\ \E at \in [1..n -> 1..n] :
                      /\ \A j, k \in 1..n : j # k => at[j] # at[k]
                      /\ \A j \in 1..n : r[j] = ms[at[j]]
                      /\ \A j, k \in 1..n :
                             j < k => \/ rank(r[j]) > rank(r[k])
                                      \/ /\ rank(r[j]) = rank(r[k])
                                         /\ at[j] < at[k]

\* C16 witness: a node is in its loop over a list that differs from the
\* enumeration order, on a board with three moves of three ranks
C16_Witness ==
    \E t \in Threads :
        /\ stack[t] # <<>>
        /\ Top(t).pc = "loop"
        /\ Len(Top(t).ordered) >= 3
        /\ Top(t).ordered # legal_moves(Top(t).entry)
        /\ move_scores(Top(t).entry, Top(t).ordered[1]) = 100
        /\ move_scores(Top(t).entry, Top(t).ordered[2]) = 50

\* C17: when getBestMove has returned there is one future per root move,
\* each is done or failed with no engine call of its worker left, each was
\* yielded by as_completed, and no done future holds a score above the
\* running best.
C17_AllWorkersJoined ==
    Returned
    => /\ DOMAIN futures = DOMAIN move_list
       /\ \A i \in DOMAIN futures :
              /\ futures[i].state \in {"done", "failed"}
              /\ stack[i] = <<>>
              /\ \E k \in DOMAIN observed : observed[k] = i
              /\ futures[i].state = "done"
                 => Leq(futures[i].value, best_value)

\* C17 witness: getBestMove has returned with three root moves, one worker
\* failed, one done, and the futures were yielded in another order than
\* they were submitted
C17_Witness ==
    /\ Returned
    /\ Len(move_list) = 3
    /\ \E i, j \in DOMAIN futures : Failed(i) /\ Done(j)
    /\ observed[1] # 1

\* C18: no step takes an entry out of the transposition table or gives a
\* hash that has an entry another score.
C18_TableAppendOnly ==
    [][\A h \in DOMAIN tt : h \in DOMAIN tt' /\ tt'[h] = tt[h]]_vars

\* the score root move i gets when its worker runs with no other worker
\* running, from the table the getBestMove call started with
ScoreAlone(i) ==
    engine(push(copy(boards[SelfBoard]), move_list[i]), NegInf, PosInf,
           maxDepth - 1, ttAtCall).value

\* C19: when no call raises, the score a finished worker reports for its
\* root move is the score the move gets when its worker runs alone, which
\* is one of the schedules; and the move getBestMove returns has the
\* greatest of these scores.
C19_ScoreOfSchedule ==
    raisesAt = {}
    => /\ \A i \in DOMAIN futures :
              Done(i) => futures[i].value = ScoreAlone(i)
       /\ (Returned /\ move_list # <<>>)
          => \A j \in DOMAIN move_list :
                 Leq(ScoreAlone(j), ScoreAlone(result))

\* C20: every engine call of a worker has a depth from 0 to maxDepth - 1,
\* the outermost maxDepth - 1 and each other one less than its caller's, so
\* that at most maxDepth calls nest below a root move; and under fair
\* scheduling a getBestMove call that was made returns.
C20_DepthAndTermination ==
    /\ [](\A t \in Threads :
              /\ Len(stack[t]) <= maxDepth
              /\ \A i \in DOMAIN stack[t] :
                     /\ stack[t][i].depth \in 0..(maxDepth - 1)
                     /\ stack[t][i].depth = maxDepth - i)
    /\ (phase \in {"submit", "collect"}) ~> Returned

\* C20 witness: maxDepth calls nest below a root move, the innermost with
\* depth 0, while another worker has not started
C20_Witness ==
    /\ maxDepth >= 3
    /\ \E t, u \in DOMAIN futures :
           /\ Len(stack[t]) = maxDepth
           /\ Top(t).depth = 0
           /\ futures[u].state = "queued"

=============================================================================
